---- MODULE Spec2Model ----
(***************************************************************************)
(* Model of the PTL thread pool (source/ThreadPool.cc): the master's       *)
(* initialize_threadpool / stop_thread / destroy_threadpool and the        *)
(* workers' start_thread / execute_thread, interleaved at the level of     *)
(* their accesses to shared state (atomics, m_task_lock, m_task_cond, the  *)
(* queue, the thread-id registry).                                         *)
(***************************************************************************)
EXTENDS Integers, Sequences, FiniteSets, TLC

\* ---------------------------------------------------------------- bounds
MaxThreads == 2     \* worker threads the process may ever create
MaxPool    == 2     \* largest proposed_size the master passes
MaxTasks   == 2     \* tasks the master ever submits
MaxTokens  == 2     \* stop tokens that may be pending in m_is_stopped

\* ------------------------------------------------- thread_pool::state
NONINIT == 0
STARTED == 1
PARTIAL == 2
STOPPED == 3

Workers  == 1..MaxThreads
Tasks    == 1..MaxTasks
MasterId == 0
NoOwner  == -1
NoTask   == 0
NoIndex  == -1

VARIABLES
    m_pool_state,      \* atomic PoolState
    m_alive_flag,      \* atomic bool
    m_pool_size,       \* size_type
    m_main_threads,    \* worker_ids: sequence of thread ids
    m_is_joined,       \* joined: sequence of booleans
    m_unique_threads,  \* workers: sequence of thread handles
    m_is_stopped,      \* stop_request_tokens
    m_stop_threads,    \* acknowledged_stop_ids
    m_thread_awake,    \* awake_count
    m_task_lock,       \* owner of task_mutex, NoOwner when free
    f_thread_ids,      \* registry: thread id -> index, NoIndex when absent
    f_lock,            \* owner of TypeMutex<ThreadPool>(), NoOwner when free
    queue,             \* the queue's content, head first
    stale,             \* TRUE while empty() misses the queued task(s)
    pc,                \* position of each worker thread
    cur_task,          \* the local _task of each worker
    within_task,       \* ThreadData::within_task of each worker
    spawned,           \* number of threads created so far
    mpc,               \* position of the master
    m_op,              \* the public operation the master runs / last ran
    m_arg,             \* proposed_size of the running / last initialize
    m_ret,             \* value returned by the last operation
    submitted,         \* number of tasks submitted so far
    grp,               \* task -> whether group() is present
    invoked,           \* task -> number of invocations
    deleted,           \* task -> number of deletions by a worker
    ran_in,            \* task -> "none" | "boot" | "drain"
    hint,              \* thread -> the _idx it was created with
    m_i                \* loop index i of the spawn loop

vars == << m_pool_state, m_alive_flag, m_pool_size, m_main_threads, m_is_joined,
           m_unique_threads, m_is_stopped, m_stop_threads, m_thread_awake,
           m_task_lock, f_thread_ids, f_lock, queue, stale, pc, cur_task,
           within_task, spawned, mpc, m_op, m_arg, m_ret, submitted,
           grp, invoked, deleted, ran_in, hint, m_i >>

poolVars   == << m_pool_size, m_main_threads, m_is_joined, m_unique_threads, spawned >>
stopVars   == << m_is_stopped, m_stop_threads >>
taskVars   == << submitted, grp, invoked, deleted, ran_in >>
queueVars  == << queue, stale >>
masterVars == << mpc, m_op, m_arg, m_ret, m_i >>
workerVars == << cur_task, within_task >>

\* ------------------------------------------------------------- helpers
Range(s) == { s[i] : i \in 1..Len(s) }

Front(s) == SubSeq(s, 1, Len(s) - 1)

\* std::vector::erase of the first element equal to x (no-op when absent)
RECURSIVE EraseFirst(_, _)
EraseFirst(s, x) ==
    IF s = << >> THEN << >>
    ELSE IF Head(s) = x THEN Tail(s)
    ELSE << Head(s) >> \o EraseFirst(Tail(s), x)

\* ------------------------------------------------------ QueueContract
\* empty(): a hint; may report true while tasks are queued
empty == queue = << >> \/ stale

\* true_size(): authoritative
true_size == Len(queue)

\* GetTask(): non-blocking pop, NoTask when nothing is queued
GetTaskResult == IF queue = << >> THEN NoTask ELSE Head(queue)

GetTaskRest == IF queue = << >> THEN << >> ELSE Tail(queue)

\* ------------------------------------------------------------- Init
Init ==
    /\ m_pool_state = NONINIT
    /\ m_alive_flag = FALSE
    /\ m_pool_size = 0
    /\ m_main_threads = << >>
    /\ m_is_joined = << >>
    /\ m_unique_threads = << >>
    /\ m_is_stopped = << >>
    /\ m_stop_threads = << >>
    /\ m_thread_awake = 0
    /\ m_task_lock = NoOwner
    /\ f_thread_ids = [t \in 0..MaxThreads |-> IF t = MasterId THEN 0 ELSE NoIndex]
    /\ f_lock = NoOwner
    /\ queue = << >>
    /\ stale = FALSE
    /\ pc = [w \in Workers |-> "unborn"]
    /\ cur_task = [w \in Workers |-> NoTask]
    /\ within_task = [w \in Workers |-> FALSE]
    /\ spawned = 0
    /\ mpc = "idle"
    /\ m_op = "none"
    /\ m_arg = 0
    /\ m_ret = 0
    /\ submitted = 0
    /\ grp = [t \in Tasks |-> FALSE]
    /\ invoked = [t \in Tasks |-> 0]
    /\ deleted = [t \in Tasks |-> 0]
    /\ ran_in = [t \in Tasks |-> "none"]
    /\ hint = [w \in Workers |-> 0]
    /\ m_i = 0

\* ------------------------------------------------- condition variable
\* threads blocked inside m_task_cond.wait
Waiters == { w \in Workers : pc[w] = "blocked" }

\* m_task_cond.notify_all(): every waiter goes on to re-acquire the mutex
notify_all == [w \in Workers |-> IF pc[w] = "blocked" THEN "wait_lock" ELSE pc[w]]

\* m_task_cond.notify_one() waking waiter w (no-op without waiters)
notify_one(w) == [pc EXCEPT ![w] = "wait_lock"]

\* the predicate _wake of the condition wait (ThreadPool.cc:557-560)
_wake == (~empty) \/ true_size > 0 \/ m_pool_state > 0

\* =====================================================================
\*  Worker threads
\* =====================================================================

\* index a starting thread stores for itself (ThreadPool.cc:82-84)
AssignedIndex(w, idx) ==
    IF idx < 0 THEN Cardinality({ t \in DOMAIN f_thread_ids : f_thread_ids[t] # NoIndex })
    ELSE idx

\* ThreadPool::start_thread: lock.lock() on TypeMutex<ThreadPool>()
StartLock(w) ==
    /\ pc[w] = "start"
    /\ f_lock = NoOwner
    /\ f_lock' = w
    /\ pc' = [pc EXCEPT ![w] = "reg"]
    /\ UNCHANGED << m_pool_state, m_alive_flag, poolVars, stopVars, m_thread_awake,
                    m_task_lock, f_thread_ids, queueVars, cur_task, within_task,
                    masterVars, taskVars, hint >>

\* ThreadPool::start_thread: the store into f_thread_ids, the end of the
\* lock's scope, up to the call of execute_thread
start_thread(w) ==
    /\ pc[w] = "reg"
    /\ f_thread_ids' = [f_thread_ids EXCEPT ![w] = AssignedIndex(w, hint[w])]
    /\ f_lock' = NoOwner
    /\ pc' = [pc EXCEPT ![w] = "awake"]
    /\ UNCHANGED << m_pool_state, m_alive_flag, poolVars, stopVars, m_thread_awake,
                    m_task_lock, queueVars, cur_task, within_task, masterVars,
                    taskVars, hint >>

\* execute_thread: ++(*m_thread_awake); m_init_func()
ExecAwake(w) ==
    /\ pc[w] = "awake"
    /\ m_thread_awake' = m_thread_awake + 1
    /\ pc' = [pc EXCEPT ![w] = "boot_get"]
    /\ UNCHANGED << m_pool_state, m_alive_flag, poolVars, stopVars, m_task_lock,
                    f_thread_ids, f_lock, queueVars, cur_task, within_task, masterVars,
                    taskVars, hint >>

\* the worker deletes a task after running it iff it has no group
DeletesAlways(t) == TRUE

DeletesTask(t) == ~grp[t]

\* a worker that calls the task body a second time
RunTaskTwice(w, where) ==
    LET t == cur_task[w] IN
    /\ invoked' = [invoked EXCEPT ![t] = @ + 2]
    /\ deleted' = [deleted EXCEPT ![t] = IF DeletesTask(t) THEN @ + 1 ELSE @]
    /\ ran_in' = [ran_in EXCEPT ![t] = where]
    /\ cur_task' = [cur_task EXCEPT ![w] = NoTask]
    /\ UNCHANGED << submitted, grp >>

\* (*_task)(); if(!_task->group()) delete _task;
RunTask(w, where) ==
    LET t == cur_task[w] IN
    /\ invoked' = [invoked EXCEPT ![t] = @ + 1]
    /\ deleted' = [deleted EXCEPT ![t] = IF DeletesTask(t) THEN @ + 1 ELSE @]
    /\ ran_in' = [ran_in EXCEPT ![t] = where]
    /\ cur_task' = [cur_task EXCEPT ![w] = NoTask]
    /\ UNCHANGED << submitted, grp >>

\* dummy run: within_task = true; _task = GetTask()
ExecDummyGet(w) ==
    /\ pc[w] = "boot_get"
    /\ cur_task' = [cur_task EXCEPT ![w] = GetTaskResult]
    /\ queue' = GetTaskRest
    /\ IF GetTaskResult # NoTask
         THEN /\ within_task' = [within_task EXCEPT ![w] = TRUE]
              /\ pc' = [pc EXCEPT ![w] = "boot_run"]
         ELSE /\ within_task' = [within_task EXCEPT ![w] = FALSE]
              /\ pc' = [pc EXCEPT ![w] = "top"]
    /\ stale' = (stale /\ GetTaskRest # << >>)
    /\ UNCHANGED << m_pool_state, m_alive_flag, poolVars, stopVars, m_thread_awake,
                    m_task_lock, f_thread_ids, f_lock, masterVars, taskVars, hint >>

\* dummy run: the task body, its disposal, within_task = false
ExecDummyRun(w) ==
    /\ pc[w] = "boot_run"
    /\ RunTask(w, "boot")
    /\ within_task' = [within_task EXCEPT ![w] = FALSE]
    /\ pc' = [pc EXCEPT ![w] = "top"]
    /\ UNCHANGED << m_pool_state, m_alive_flag, poolVars, stopVars, m_thread_awake,
                    m_task_lock, f_thread_ids, f_lock, queueVars, masterVars, hint >>

\* a worker that keeps the mutex where the code releases it
unlock_skipped(w) == m_task_lock

\* if(_task_lock.owns_lock()) _task_lock.unlock();  (ThreadPool.cc:584-585
\* inside the wait loop, 596-597 after it): the owner of m_task_lock afterwards
unlock_if_owned(w) == IF m_task_lock = w THEN NoOwner ELSE m_task_lock

\* while(_task_queue->empty()); when the loop is left, the release of
\* ThreadPool.cc:596-597 follows
WaitEmpty(w) ==
    /\ pc[w] = "top"
    /\ pc' = [pc EXCEPT ![w] = IF empty THEN "leave1" ELSE "leave3"]
    /\ m_task_lock' = IF empty THEN m_task_lock ELSE unlock_if_owned(w)
    /\ UNCHANGED << m_pool_state, m_alive_flag, poolVars, stopVars, m_thread_awake,
                    f_thread_ids, f_lock, queueVars, cur_task, within_task,
                    masterVars, taskVars, hint >>

\* what leave_pool() decides from the state it loads
LeaveNever == "stay"

LeaveWhenStarted == IF m_pool_state > 0 THEN "leave" ELSE "stay"

leave_pool ==
    IF m_pool_state > 0
      THEN IF m_pool_state = STOPPED THEN "leave"
           ELSE IF m_pool_state = PARTIAL
             THEN IF m_is_stopped # << >> /\ m_is_stopped[Len(m_is_stopped)]
                    THEN "ack" ELSE "unlock"
             ELSE "stay"
      ELSE "stay"

\* a call of leave_pool() by worker w at position pc[w], going on at `next`
\* when it returns false; a return from execute_thread releases _task_lock
LeavePoolStep(w, next) ==
    /\ (leave_pool \in {"ack", "unlock"}) => m_task_lock \in {NoOwner, w}
    /\ IF leave_pool = "leave"
         THEN /\ pc' = [pc EXCEPT ![w] = "done"]
              /\ m_task_lock' = IF m_task_lock = w THEN NoOwner ELSE m_task_lock
              /\ UNCHANGED stopVars
         ELSE IF leave_pool = "ack"
         THEN /\ pc' = [pc EXCEPT ![w] = "done"]
              /\ m_stop_threads' = Append(m_stop_threads, w)
              /\ m_is_stopped' = Front(m_is_stopped)
              /\ m_task_lock' = NoOwner
         ELSE IF leave_pool = "unlock"
         THEN /\ pc' = [pc EXCEPT ![w] = next]
              /\ m_task_lock' = NoOwner
              /\ UNCHANGED stopVars
         ELSE /\ pc' = [pc EXCEPT ![w] = next]
              /\ UNCHANGED << m_task_lock, stopVars >>

\* if(leave_pool()) return;   (ThreadPool.cc:562)
WaitLeave(w) ==
    /\ pc[w] = "leave1"
    /\ LeavePoolStep(w, "size")
    /\ UNCHANGED << m_pool_state, m_alive_flag, poolVars, m_thread_awake,
                    f_thread_ids, f_lock, queueVars, cur_task, within_task,
                    masterVars, taskVars, hint >>

\* if(_task_queue->true_size() == 0) ... else break; the break is followed
\* by the release of ThreadPool.cc:596-597
WaitSize(w) ==
    /\ pc[w] = "size"
    /\ pc' = [pc EXCEPT ![w] = IF true_size = 0 THEN "dec" ELSE "leave3"]
    /\ m_task_lock' = IF true_size = 0 THEN m_task_lock ELSE unlock_if_owned(w)
    /\ UNCHANGED << m_pool_state, m_alive_flag, poolVars, stopVars, m_thread_awake,
                    f_thread_ids, f_lock, queueVars, cur_task, within_task,
                    masterVars, taskVars, hint >>

\* if(m_thread_awake->load() > 0) --(*m_thread_awake);
WaitDec(w) ==
    /\ pc[w] = "dec"
    /\ m_thread_awake' = IF m_thread_awake > 0 THEN m_thread_awake - 1 ELSE m_thread_awake
    /\ pc' = [pc EXCEPT ![w] = "wait_lock"]
    /\ UNCHANGED << m_pool_state, m_alive_flag, poolVars, stopVars,
                    m_task_lock, f_thread_ids, f_lock, queueVars, cur_task, within_task,
                    masterVars, taskVars, hint >>

\* _task_lock.lock() before the wait, and the re-lock of a notified waiter
WaitLock(w) ==
    /\ pc[w] = "wait_lock"
    /\ m_task_lock = NoOwner
    /\ m_task_lock' = w
    /\ pc' = [pc EXCEPT ![w] = "wait"]
    /\ UNCHANGED << m_pool_state, m_alive_flag, poolVars, stopVars, m_thread_awake,
                    f_thread_ids, f_lock, queueVars, cur_task, within_task,
                    masterVars, taskVars, hint >>

\* m_task_cond.wait(_task_lock, _wake): while(!_wake()) wait(_task_lock)
WaitCond(w) ==
    /\ pc[w] = "wait"
    /\ IF _wake
         THEN /\ pc' = [pc EXCEPT ![w] = "leave2"]
              /\ UNCHANGED m_task_lock
         ELSE /\ pc' = [pc EXCEPT ![w] = "blocked"]
              /\ m_task_lock' = NoOwner
    /\ UNCHANGED << m_pool_state, m_alive_flag, poolVars, stopVars, m_thread_awake,
                    f_thread_ids, f_lock, queueVars, cur_task, within_task,
                    masterVars, taskVars, hint >>

\* if(leave_pool()) return;   (ThreadPool.cc:580)
WaitLeave2(w) ==
    /\ pc[w] = "leave2"
    /\ LeavePoolStep(w, "unlock")
    /\ UNCHANGED << m_pool_state, m_alive_flag, poolVars, m_thread_awake,
                    f_thread_ids, f_lock, queueVars, cur_task, within_task,
                    masterVars, taskVars, hint >>

\* if(_task_lock.owns_lock()) _task_lock.unlock();
WaitUnlock(w) ==
    /\ pc[w] = "unlock"
    /\ m_task_lock' = unlock_if_owned(w)
    /\ pc' = [pc EXCEPT ![w] = "inc"]
    /\ UNCHANGED << m_pool_state, m_alive_flag, poolVars, stopVars, m_thread_awake,
                    f_thread_ids, f_lock, queueVars, cur_task, within_task,
                    masterVars, taskVars, hint >>

\* if(m_thread_awake->load() < m_pool_size) ++(*m_thread_awake);
WaitInc(w) ==
    /\ pc[w] = "inc"
    /\ m_thread_awake' = IF m_thread_awake < m_pool_size THEN m_thread_awake + 1
                         ELSE m_thread_awake
    /\ pc' = [pc EXCEPT ![w] = "top"]
    /\ UNCHANGED << m_pool_state, m_alive_flag, poolVars, stopVars,
                    m_task_lock, f_thread_ids, f_lock, queueVars, cur_task, within_task,
                    masterVars, taskVars, hint >>

\* if(leave_pool()) return; within_task = true   (ThreadPool.cc:601-606)
LoopLeave(w) ==
    /\ pc[w] = "leave3"
    /\ LeavePoolStep(w, "drain")
    /\ within_task' = [within_task EXCEPT ![w] = (leave_pool \in {"stay", "unlock"})]
    /\ UNCHANGED << m_pool_state, m_alive_flag, poolVars, m_thread_awake,
                    f_thread_ids, f_lock, queueVars, cur_task,
                    masterVars, taskVars, hint >>

\* a drain loop that is left without resetting within_task
DrainEmptyNoReset(w) ==
    /\ pc[w] = "drain"
    /\ pc' = [pc EXCEPT ![w] = IF empty THEN "top" ELSE "get"]
    /\ UNCHANGED << m_pool_state, m_alive_flag, poolVars, stopVars, m_thread_awake,
                    m_task_lock, f_thread_ids, f_lock, queueVars, workerVars,
                    masterVars, taskVars, hint >>

\* while(!_task_queue->empty()) ... ; within_task = false
DrainEmpty(w) ==
    /\ pc[w] = "drain"
    /\ IF empty
         THEN /\ pc' = [pc EXCEPT ![w] = "top"]
              /\ within_task' = [within_task EXCEPT ![w] = FALSE]
         ELSE /\ pc' = [pc EXCEPT ![w] = "get"]
              /\ UNCHANGED within_task
    /\ UNCHANGED << m_pool_state, m_alive_flag, poolVars, stopVars, m_thread_awake,
                    m_task_lock, f_thread_ids, f_lock, queueVars, cur_task,
                    masterVars, taskVars, hint >>

\* auto _task = _task_queue->GetTask();
DrainGet(w) ==
    /\ pc[w] = "get"
    /\ cur_task' = [cur_task EXCEPT ![w] = GetTaskResult]
    /\ queue' = GetTaskRest
    /\ pc' = [pc EXCEPT ![w] = IF GetTaskResult # NoTask THEN "run" ELSE "drain"]
    /\ stale' = (stale /\ GetTaskRest # << >>)
    /\ UNCHANGED << m_pool_state, m_alive_flag, poolVars, stopVars, m_thread_awake,
                    m_task_lock, f_thread_ids, f_lock, within_task,
                    masterVars, taskVars, hint >>

\* (*_task)(); if(!_task->group()) delete _task;
DrainRun(w) ==
    /\ pc[w] = "run"
    /\ RunTask(w, "drain")
    /\ pc' = [pc EXCEPT ![w] = "drain"]
    /\ UNCHANGED << m_pool_state, m_alive_flag, poolVars, stopVars, m_thread_awake,
                    m_task_lock, f_thread_ids, f_lock, queueVars, within_task,
                    masterVars, hint >>

\* =====================================================================
\*  Master thread
\* =====================================================================

\* ThreadPool::GetThisThreadID() called by the master (registered at
\* construction, ThreadPool.cc:143): the value of `return f_thread_ids[_tid]`
GetThisThreadID == f_thread_ids[MasterId]

\* the locked scope of GetThisThreadID() (ThreadPool.cc:108-117) can be
\* entered: the master is registered, so the scope stores nothing
GetThisThreadIDLock == f_lock = NoOwner

\* ThreadPool::is_initialized()
is_initialized == ~(m_pool_state = NONINIT)

\* if(proposed_size < 1) return 0;
ProposedBelowZero(n) == n < 0

ProposedBelowOne(n) == n < 1

\* initialize_threadpool(proposed_size), up to the branch at ThreadPool.cc:269-291
initialize_threadpool(n) ==
    /\ mpc = "idle"
    /\ (n > m_pool_size) => (spawned + (n - m_pool_size) <= MaxThreads)
    /\ m_op' = "init"
    /\ m_arg' = n
    /\ IF ProposedBelowOne(n)
         THEN /\ m_ret' = 0
              /\ mpc' = "idle"
              /\ UNCHANGED << m_pool_state, m_alive_flag >>
         ELSE /\ m_pool_state' = IF ~m_alive_flag THEN STARTED ELSE m_pool_state
              /\ m_alive_flag' = TRUE
              /\ IF m_pool_state' = STARTED /\ m_pool_size > n
                   THEN /\ mpc' = "s_post"
                        /\ UNCHANGED m_ret
                   ELSE IF m_pool_state' = STARTED /\ m_pool_size = n
                   THEN /\ mpc' = "idle"
                        /\ m_ret' = m_pool_size
                   ELSE /\ mpc' = "i_reserve"
                        /\ UNCHANGED m_ret
    /\ UNCHANGED << poolVars, stopVars, m_thread_awake, m_task_lock, f_thread_ids,
                    f_lock, queueVars, pc, workerVars, taskVars, hint, m_i >>

\* { AutoLock _task_lock(m_task_lock); m_is_joined.reserve(..); }
\* this_tid = GetThisThreadID(); i = m_pool_size
InitReserve ==
    /\ mpc = "i_reserve"
    /\ m_task_lock = NoOwner
    /\ GetThisThreadIDLock
    /\ m_i' = m_pool_size
    /\ mpc' = "i_spawn"
    /\ UNCHANGED << m_pool_state, m_alive_flag, poolVars, stopVars, m_thread_awake,
                    m_task_lock, f_thread_ids, f_lock, queueVars, pc, workerVars, taskVars,
                    hint, m_op, m_arg, m_ret >>

\* one iteration of the spawn loop (ThreadPool.cc:301-331)
InitSpawn ==
    /\ mpc = "i_spawn"
    /\ m_i < m_arg
    /\ spawned < MaxThreads
    /\ LET w == spawned + 1 IN
         /\ pc' = [pc EXCEPT ![w] = "start"]
         /\ hint' = [hint EXCEPT ![w] = GetThisThreadID + m_i + 1]
         /\ m_main_threads' = Append(m_main_threads, w)
         /\ m_unique_threads' = Append(m_unique_threads, w)
    /\ spawned' = spawned + 1
    /\ m_pool_size' = m_pool_size + 1
    /\ m_is_joined' = Append(m_is_joined, FALSE)
    /\ m_i' = m_i + 1
    /\ UNCHANGED << m_pool_state, m_alive_flag, stopVars, m_thread_awake,
                    m_task_lock, f_thread_ids, f_lock, queueVars, workerVars, taskVars,
                    mpc, m_op, m_arg, m_ret >>

\* after the loop: lock, compare the vectors' sizes, return m_main_threads.size()
InitFinish ==
    /\ mpc = "i_spawn"
    /\ m_i >= m_arg
    /\ m_task_lock = NoOwner
    /\ IF Len(m_is_joined) # Len(m_main_threads)
         THEN /\ m_op' = "init_throw"
              /\ UNCHANGED m_ret
         ELSE /\ m_ret' = Len(m_main_threads)
              /\ UNCHANGED m_op
    /\ mpc' = "idle"
    /\ UNCHANGED << m_pool_state, m_alive_flag, poolVars, stopVars, m_thread_awake,
                    m_task_lock, f_thread_ids, f_lock, queueVars, pc, workerVars, taskVars,
                    hint, m_arg, m_i >>

\* a return of stop_thread() with value r, to its caller: the loop
\* while(stop_thread() > proposed_size) of initialize_threadpool, or the user
StopReturn(r, size) ==
    IF m_op' = "init"
      THEN IF r > m_arg
             THEN /\ mpc' = "s_post"
                  /\ UNCHANGED m_ret
             ELSE /\ mpc' = "idle"
                  /\ m_ret' = size
      ELSE /\ mpc' = "idle"
           /\ m_ret' = r

\* stop_thread(), ThreadPool.cc:439-447: post a token and notify one waiter
StopPost ==
    /\ IF ~m_alive_flag \/ m_pool_size = 0
         THEN /\ StopReturn(0, m_pool_size)
              /\ UNCHANGED << m_is_stopped, pc >>
         ELSE /\ m_task_lock = NoOwner
              /\ Len(m_is_stopped) < MaxTokens
              /\ m_is_stopped' = Append(m_is_stopped, TRUE)
              /\ \/ /\ Waiters = {}
                    /\ UNCHANGED pc
                 \/ \E w \in Waiters : pc' = notify_one(w)
              /\ mpc' = "s_drain"
              /\ UNCHANGED m_ret
    /\ UNCHANGED << m_pool_state, m_alive_flag, poolVars, m_stop_threads,
                    m_thread_awake, m_task_lock, f_thread_ids, f_lock, queueVars,
                    workerVars, taskVars, hint, m_arg, m_i >>

\* the public call stop_one()
stop_thread ==
    /\ mpc = "idle"
    /\ m_op' = "stop"
    /\ StopPost

\* a further call of stop_thread() by the loop of initialize_threadpool
InitStopAgain ==
    /\ mpc = "s_post"
    /\ UNCHANGED m_op
    /\ StopPost

\* m_main_threads after the acknowledged ids `acks` are erased from it
RECURSIVE EraseAll(_, _)
EraseAll(s, acks) ==
    IF acks = << >> THEN s ELSE EraseAll(EraseFirst(s, Head(acks)), Tail(acks))

\* a pop_back that does not depend on an id having been acknowledged
PopBackAlways(s, n) == SubSeq(s, 1, Len(s) - 1)

\* m_is_joined after one pop_back per acknowledged id
PopBacks(s, n) == SubSeq(s, 1, IF Len(s) > n THEN Len(s) - n ELSE 0)

\* stop_thread(), ThreadPool.cc:451-472: drain m_stop_threads, update m_pool_size
StopDrain ==
    /\ mpc = "s_drain"
    /\ m_task_lock = NoOwner
    /\ m_main_threads' = EraseAll(m_main_threads, m_stop_threads)
    /\ m_is_joined' = PopBacks(m_is_joined, Len(m_stop_threads))
    /\ m_stop_threads' = << >>
    /\ m_pool_size' = Len(m_main_threads')
    /\ UNCHANGED m_op
    /\ StopReturn(Len(m_main_threads'), m_pool_size')
    /\ UNCHANGED << m_pool_state, m_alive_flag, m_unique_threads, spawned,
                    m_is_stopped, m_thread_awake, m_task_lock, f_thread_ids,
                    f_lock, queueVars, pc, workerVars, taskVars, hint, m_arg, m_i >>

\* destroy_threadpool(), ThreadPool.cc:361-368: nid = GetThisThreadID();
\* m_pool_state.store(STOPPED)
destroy_threadpool ==
    /\ mpc = "idle"
    /\ GetThisThreadIDLock
    /\ m_op' = IF m_alive_flag THEN "destroy" ELSE "destroy_dead"
    /\ m_pool_state' = STOPPED
    /\ mpc' = "d_notify"
    /\ UNCHANGED << m_alive_flag, poolVars, stopVars, m_thread_awake, m_task_lock,
                    f_thread_ids, f_lock, queueVars, pc, workerVars, taskVars, hint,
                    m_arg, m_ret, m_i >>

\* lock; notify_all; unlock; if(!m_alive_flag) return 0; the size check
DestroyNotify ==
    /\ mpc = "d_notify"
    /\ m_task_lock = NoOwner
    /\ pc' = notify_all
    /\ IF ~m_alive_flag
         THEN /\ mpc' = "idle"
              /\ m_ret' = 0
              /\ UNCHANGED m_op
         ELSE IF Len(m_is_joined) # Len(m_main_threads)
         THEN /\ mpc' = "idle"
              /\ m_op' = "destroy_throw"
              /\ UNCHANGED m_ret
         ELSE /\ mpc' = "d_erase"
              /\ UNCHANGED << m_ret, m_op >>
    /\ UNCHANGED << m_pool_state, m_alive_flag, poolVars, stopVars, m_thread_awake,
                    m_task_lock, f_thread_ids, f_lock, queueVars, workerVars, taskVars,
                    hint, m_arg, m_i >>

\* erase the workers' ids from f_thread_ids, with no lock on
\* TypeMutex<ThreadPool>(); m_task_cond.notify_all()
DestroyErase ==
    /\ mpc = "d_erase"
    /\ f_thread_ids' = [t \in DOMAIN f_thread_ids |->
                          IF t \in Range(m_main_threads) THEN NoIndex
                          ELSE f_thread_ids[t]]
    /\ pc' = notify_all
    /\ mpc' = "d_join"
    /\ UNCHANGED << m_pool_state, m_alive_flag, poolVars, stopVars, m_thread_awake,
                    m_task_lock, f_lock, queueVars, workerVars, taskVars, hint,
                    m_op, m_arg, m_ret, m_i >>

\* itr->join() returns once the thread has returned from start_thread
JoinDetached(h) == TRUE

Joined(h) == pc[h] = "done"

\* join every handle of m_unique_threads; clear the vectors; alive = false
DestroyJoin ==
    /\ mpc = "d_join"
    /\ \A h \in Range(m_unique_threads) : Joined(h)
    /\ m_main_threads' = << >>
    /\ m_is_joined' = << >>
    /\ m_unique_threads' = << >>
    /\ m_alive_flag' = FALSE
    /\ m_ret' = 0
    /\ mpc' = "idle"
    /\ UNCHANGED << m_pool_state, m_pool_size, spawned, stopVars, m_thread_awake,
                    m_task_lock, f_thread_ids, f_lock, queueVars, pc, workerVars, taskVars,
                    hint, m_op, m_arg, m_i >>

\* =====================================================================
\*  Environment: task submission and the queue's internal settling
\* =====================================================================

\* a task (with or without a group) is accepted by the queue; one waiter is
\* notified; empty() may miss the task for a while when it was the only one
Submit(g, s) ==
    /\ mpc = "idle"
    /\ m_alive_flag
    /\ submitted < MaxTasks
    /\ submitted' = submitted + 1
    /\ grp' = [grp EXCEPT ![submitted + 1] = g]
    /\ queue' = Append(queue, submitted + 1)
    /\ stale' = IF queue = << >> THEN s ELSE stale
    /\ \/ /\ Waiters = {}
          /\ UNCHANGED pc
       \/ \E w \in Waiters : pc' = notify_one(w)
    /\ UNCHANGED << m_pool_state, m_alive_flag, poolVars, stopVars, m_thread_awake,
                    m_task_lock, f_thread_ids, f_lock, workerVars, invoked, deleted, ran_in,
                    hint, masterVars >>

\* empty() catches up with true_size()
QueueSettle ==
    /\ stale
    /\ stale' = FALSE
    /\ UNCHANGED << m_pool_state, m_alive_flag, poolVars, stopVars, m_thread_awake,
                    m_task_lock, f_thread_ids, f_lock, queue, pc, workerVars, taskVars,
                    hint, masterVars >>

\* =====================================================================
\*  Specification
\* =====================================================================

WorkerStep(w) ==
    \/ StartLock(w)
    \/ start_thread(w)
    \/ ExecAwake(w)
    \/ ExecDummyGet(w)
    \/ ExecDummyRun(w)
    \/ WaitEmpty(w)
    \/ WaitLeave(w)
    \/ WaitSize(w)
    \/ WaitDec(w)
    \/ WaitLock(w)
    \/ WaitCond(w)
    \/ WaitLeave2(w)
    \/ WaitUnlock(w)
    \/ WaitInc(w)
    \/ LoopLeave(w)
    \/ DrainEmpty(w)
    \/ DrainGet(w)
    \/ DrainRun(w)

\* steps the master takes once it is inside a public operation
MasterStep ==
    \/ InitReserve
    \/ InitSpawn
    \/ InitFinish
    \/ InitStopAgain
    \/ StopDrain
    \/ DestroyNotify
    \/ DestroyErase
    \/ DestroyJoin

\* calls the user makes
Call ==
    \/ \E n \in 0..MaxPool : initialize_threadpool(n)
    \/ stop_thread
    \/ destroy_threadpool
    \/ \E g \in BOOLEAN, s \in BOOLEAN : Submit(g, s)

Next ==
    \/ \E w \in Workers : WorkerStep(w)
    \/ MasterStep
    \/ Call
    \/ QueueSettle

Spec == Init /\ [][Next]_vars

\* calls of the liveness specification: the group flag and the no-op
\* initialize(0) do not bear on progress
LiveCall ==
    \/ \E n \in 1..MaxPool : initialize_threadpool(n)
    \/ stop_thread
    \/ destroy_threadpool
    \/ \E s \in BOOLEAN : Submit(FALSE, s)

LiveNext ==
    \/ \E w \in Workers : WorkerStep(w)
    \/ MasterStep
    \/ LiveCall
    \/ QueueSettle

\* every thread that can take a step eventually takes one; a thread waiting
\* for m_task_lock gets it if it is free again and again; the user's calls
\* are not forced
Fairness ==
    /\ \A w \in Workers : WF_vars(WorkerStep(w)) /\ SF_vars(WaitLock(w))
    /\ SF_vars(MasterStep)
    /\ WF_vars(QueueSettle)

LiveSpec == Init /\ [][LiveNext]_vars /\ Fairness

\* =====================================================================
\*  Properties
\* =====================================================================

Spawned == 1..spawned

\* C1: once destroy() has returned on a pool that was alive, every thread
\* the pool ever spawned has returned from execute_thread and holds no task
C1_AllJoinedAfterDestroy ==
    (mpc = "idle" /\ m_op = "destroy") =>
        \A w \in Spawned : pc[w] = "done" /\ cur_task[w] = NoTask

C1_Witness ==
    /\ mpc = "idle"
    /\ m_op = "destroy"
    /\ spawned >= 2
    /\ \E t \in Tasks : invoked[t] = 1

\* C2: a destroy() that was called on an alive pool eventually returns with
\* m_alive_flag false, whatever the workers were doing
C2_DestroyReturns ==
    (mpc = "d_notify" /\ m_op = "destroy") ~>
        (mpc = "idle" /\ m_op = "destroy" /\ ~m_alive_flag)

C2_Witness ==
    /\ mpc = "d_notify"
    /\ m_op = "destroy"
    /\ \E w1, w2 \in Workers :
         /\ pc[w1] = "wait" /\ m_task_lock = w1
         /\ pc[w2] = "run"

\* C3: when initialize(N), N >= 1, has returned, exactly N workers exist and
\* N is the value returned
C3_ExactlyNWorkers ==
    (mpc = "idle" /\ m_op = "init" /\ m_arg >= 1) =>
        /\ m_pool_size = m_arg
        /\ Len(m_main_threads) = m_arg
        /\ Len(m_unique_threads) = m_arg
        /\ m_ret = m_arg

\* C4: no worker takes a task out of the queue while PoolState is STOPPED
C4_NoDequeueAfterStopped ==
    [][\A w \in Workers :
         (cur_task[w] = NoTask /\ cur_task'[w] # NoTask) => m_pool_state # STOPPED]_vars

\* C5: no task is invoked more than once, and no task is held by two
\* workers, or held by a worker while it is still queued or already invoked
C5_AtMostOnce ==
    /\ \A t \in Tasks : invoked[t] <= 1
    /\ \A w1, w2 \in Workers :
         (w1 # w2 /\ cur_task[w1] # NoTask) => cur_task[w1] # cur_task[w2]
    /\ \A w \in Workers :
         cur_task[w] # NoTask =>
             /\ cur_task[w] \notin Range(queue)
             /\ invoked[cur_task[w]] = 0

C5_Witness ==
    \E w1, w2 \in Workers :
        /\ w1 # w2
        /\ pc[w1] = "boot_run"
        /\ pc[w2] = "run"

C7_DeleteIffNoGroup ==
    \A t \in Tasks :
        /\ grp[t] => deleted[t] = 0
        /\ ~grp[t] => deleted[t] = invoked[t]

C7_Witness ==
    \E t1, t2 \in Tasks :
        /\ ~grp[t1] /\ invoked[t1] = 1 /\ deleted[t1] = 1 /\ ran_in[t1] = "boot"
        /\ grp[t2] /\ invoked[t2] = 1 /\ deleted[t2] = 0 /\ ran_in[t2] = "drain"

\* C9: a stop_one() on an alive pool with pool_size >= 1 lowers m_pool_size
\* by one and returns the new size
C9_StopLowersPoolSize ==
    [][(mpc = "s_drain" /\ m_op = "stop" /\ mpc' = "idle") =>
         (m_pool_size' = m_pool_size - 1 /\ m_ret' = m_pool_size')]_vars

\* C10: after stop_one() has posted its token to a pool with a worker
\* thread, some worker pops the token, appends its id to m_stop_threads and
\* returns (a destroy() that stops the whole pool first is let pass)
C10_TokenAccepted ==
    (mpc = "s_drain" /\ m_op = "stop" /\ Len(m_main_threads) >= 1) ~>
        \/ \E w \in Workers : w \in Range(m_stop_threads) /\ pc[w] = "done"
        \/ m_pool_state = STOPPED

\* C11: an initialize(proposed) that enters its shrink loop on a started
\* pool whose threads all exist and that has no stop token pending
\* (1 <= proposed < pool_size) returns, with m_pool_size equal to proposed
C11_ShrinkTerminates ==
    (/\ mpc = "s_post" /\ m_op = "init"
     /\ m_arg >= 1 /\ m_arg < m_pool_size
     /\ Len(m_main_threads) = m_pool_size
     /\ m_is_stopped = << >>)
        ~> (mpc = "idle" /\ m_op = "init" /\ m_pool_size = m_arg)

\* C12: whenever the master is outside the public operations (before a
\* call and after its return), m_is_joined, m_main_threads and
\* m_unique_threads have the same length
C12_ParallelVectors ==
    (mpc = "idle") =>
        /\ Len(m_is_joined) = Len(m_main_threads)
        /\ Len(m_main_threads) = Len(m_unique_threads)

C12_Witness ==
    /\ mpc = "idle"
    /\ m_op = "stop"
    /\ m_is_stopped # << >>
    /\ Len(m_unique_threads) = 2
    /\ \E w \in Workers : pc[w] = "leave2"

\* a step in which m_task_lock is released: by a worker that owned it, or by
\* the master at the end of one of its locked scopes (ThreadPool.cc:295-298,
\* 334-353, 443-447, 451-473, 372-374)
TaskLockReleased ==
    \/ m_task_lock # NoOwner /\ m_task_lock' = NoOwner
    \/ mpc = "i_reserve" /\ mpc' = "i_spawn"
    \/ mpc = "i_spawn" /\ mpc' = "idle"
    \/ mpc # "s_drain" /\ mpc' = "s_drain"
    \/ mpc = "s_drain" /\ mpc' # "s_drain"
    \/ mpc = "d_notify" /\ mpc' # "d_notify"

\* C13: whenever m_task_lock is released, by a worker or by the master,
\* m_thread_awake lies between 0 and m_pool_size
C13_AwakeInRange ==
    [][TaskLockReleased =>
         (0 <= m_thread_awake' /\ m_thread_awake' <= m_pool_size')]_vars

\* C14: a worker that is invoking a task body (dummy run or drain loop) has
\* within_task true, and a worker at the condition wait (locking for it,
\* evaluating _wake or blocked in it) has within_task false
C14_WithinTask ==
    \A w \in Workers :
        /\ pc[w] \in {"boot_run", "run"} => within_task[w]
        /\ pc[w] \in {"wait_lock", "wait", "blocked"} => ~within_task[w]

C14_Witness ==
    \E w1, w2 \in Workers :
        /\ pc[w1] = "run" /\ within_task[w1]
        /\ pc[w2] = "wait" /\ ~within_task[w2]
        /\ \E t \in Tasks : ran_in[t] = "drain" /\ invoked[t] = 1

\* C15: a call initialize(proposed) with proposed < 1 returns at once with
\* the value 0 and changes none of PoolState, the alive flag, m_pool_size
\* and the three vectors (a step from idle after which the last operation is
\* such a call is the call itself, or a step of another thread after it)
C15_InitBelowOneNoOp ==
    [][(mpc = "idle" /\ m_op' = "init" /\ m_arg' < 1) =>
         /\ mpc' = "idle"
         /\ m_ret' = 0
         /\ UNCHANGED << m_pool_state, m_alive_flag, m_pool_size,
                         m_unique_threads, m_main_threads, m_is_joined >>]_vars

C15_Witness ==
    /\ mpc = "idle"
    /\ m_op = "init"
    /\ m_arg = 0
    /\ m_ret = 0
    /\ m_pool_state = STARTED
    /\ m_alive_flag
    /\ m_pool_size = 2
    /\ Len(m_unique_threads) = 2

\* C16: a destroy() called on a pool that is not alive changes none of
\* PoolState, is_initialized(), m_pool_size and the three vectors, in
\* neither of its steps, and returns 0
C16_DestroyDeadNoOp ==
    [][(/\ m_op' = "destroy_dead"
        /\ \/ mpc = "idle" /\ mpc' = "d_notify"
           \/ mpc = "d_notify") =>
         /\ UNCHANGED << m_pool_state, m_pool_size,
                         m_unique_threads, m_main_threads, m_is_joined >>
         /\ is_initialized' = is_initialized
         /\ (mpc' = "idle" => m_ret' = 0)]_vars

\* C17: a worker that invokes m_init_func, GetTask() or a task body, in the
\* dummy run or in the drain loop, does not own m_task_lock
C17_NoLockInUserCode ==
    \A w \in Workers :
        pc[w] \in {"awake", "boot_get", "boot_run", "get", "run"} =>
            m_task_lock # w

C17_Witness ==
    \E w1, w2 \in Workers :
        /\ pc[w1] = "get"
        /\ m_task_lock = w2
        /\ \E t \in Tasks : ran_in[t] = "drain" /\ invoked[t] = 1

\* C18: every step that changes f_thread_ids is taken by the thread that
\* holds the registry mutex TypeMutex<ThreadPool>()
C18_RegistryUnderMutex ==
    [][(f_thread_ids' # f_thread_ids) =>
         \E w \in Workers : f_lock = w /\ pc[w] = "reg" /\ pc'[w] # "reg"]_vars

\* C19: once destroy() has returned on a pool that was alive, f_thread_ids
\* holds no entry for a thread the pool spawned
C19_RegistryEmptyAfterDestroy ==
    (mpc = "idle" /\ m_op = "destroy") =>
        \A w \in Spawned : f_thread_ids[w] = NoIndex

\* C20: m_pool_state never moves to a smaller value of the order
\* NONINIT < STARTED < PARTIAL < STOPPED, except from PARTIAL to STARTED;
\* in particular it never leaves STOPPED
C20_PoolStateMonotonic ==
    [][\/ m_pool_state' >= m_pool_state
       \/ m_pool_state = PARTIAL /\ m_pool_state' = STARTED]_vars

\* worker threads that were created and have not returned from start_thread
LiveWorkers == { w \in Workers : pc[w] \notin {"unborn", "done"} }

\* C21: whenever the master is outside the public operations and no stop
\* token is pending, m_pool_size is the number of live worker threads; so
\* it is 0 once destroy() has returned
C21_PoolSizeIsLiveWorkers ==
    (mpc = "idle" /\ m_is_stopped = << >>) =>
        m_pool_size = Cardinality(LiveWorkers)

\* C22: no two distinct threads that are in f_thread_ids at the same time
\* hold the same index
C22_DistinctIndices ==
    \A t1, t2 \in DOMAIN f_thread_ids :
        (t1 # t2 /\ f_thread_ids[t1] # NoIndex /\ f_thread_ids[t2] # NoIndex) =>
            f_thread_ids[t1] # f_thread_ids[t2]

\* C23: a worker that calls the condition wait while PoolState is STARTED,
\* the queue is empty (empty() true, true_size() 0) and no stop token is
\* pending blocks in the wait: its step from the call leads into the wait,
\* not on to the code after it
C23_IdleWorkerBlocks ==
    [][\A w \in Workers :
         (/\ pc[w] = "wait" /\ pc'[w] # "wait"
          /\ m_pool_state = STARTED
          /\ empty /\ true_size = 0
          /\ m_is_stopped = << >>) =>
             pc'[w] = "blocked"]_vars

====
